---- MODULE Spec2Model ----
(***************************************************************************)
(* Model of the BMTC stop-arrivals Pages Function (onRequest and its       *)
(* helpers): static CSV timetable loading, live feed conversion and the    *)
(* live/static decision.                                                   *)
(*                                                                         *)
(* JavaScript strings are sequences of one-character strings.  A value     *)
(* that may be null/undefined is a sequence of length 0 (absent) or 1.     *)
(* A JavaScript number that may be NaN is [nan |-> BOOLEAN, v |-> Int].    *)
(* Instants are milliseconds counted from 00:00 UTC of the day Epoch       *)
(* (a shift of origin that keeps differences and the UTC time of day).     *)
(***************************************************************************)
EXTENDS Integers, Sequences, FiniteSets, TLC

(***************************************************************************)
(* Bounds of the model.                                                    *)
(***************************************************************************)
\* number of data lines after the header in a static CSV file
MaxRows == 2

\* number of records in the live feed's data array
MaxLive == 2

(***************************************************************************)
(* String primitives.                                                      *)
(***************************************************************************)
Digits == <<"0", "1", "2", "3", "4", "5", "6", "7", "8", "9">>

IsDigit(c) == \E i \in 1..10 : Digits[i] = c

DigitVal(c) == (CHOOSE i \in 1..10 : Digits[i] = c) - 1

\* \s of a regular expression, and the characters String.prototype.trim strips
IsSpace(c) == c \in {" ", "\t", "\r", "\n"}

RECURSIVE TrimStart(_)
TrimStart(s) ==
    IF s # <<>> /\ IsSpace(Head(s)) THEN TrimStart(Tail(s)) ELSE s

RECURSIVE TrimEnd(_)
TrimEnd(s) ==
    IF s # <<>> /\ IsSpace(s[Len(s)]) THEN TrimEnd(SubSeq(s, 1, Len(s) - 1)) ELSE s

\* String.prototype.trim
Trim(s) == TrimEnd(TrimStart(s))

\* Includes that only finds sub at the start of s
IncludesAtStart(s, sub) ==
    Len(sub) <= Len(s) /\ SubSeq(s, 1, Len(sub)) = sub

\* String.prototype.includes
Includes(s, sub) ==
    \E i \in 1..(Len(s) - Len(sub) + 1) : SubSeq(s, i, i + Len(sub) - 1) = sub

\* String.prototype.split with a one-character separator
RECURSIVE SplitFrom(_, _, _, _)
SplitFrom(s, sep, i, cur) ==
    IF i > Len(s) THEN <<cur>>
    ELSE IF s[i] = sep THEN <<cur>> \o SplitFrom(s, sep, i + 1, <<>>)
    ELSE SplitFrom(s, sep, i + 1, Append(cur, s[i]))

Split(s, sep) == SplitFrom(s, sep, 1, <<>>)

\* a JavaScript number: NaN or an integer
NaN == [nan |-> TRUE, v |-> 0]

Num(n) == [nan |-> FALSE, v |-> n]

RECURSIVE DigitsValue(_, _)
DigitsValue(s, acc) ==
    IF s = <<>> THEN acc ELSE DigitsValue(Tail(s), acc * 10 + DigitVal(Head(s)))

RECURSIVE DigitPrefix(_)
DigitPrefix(s) ==
    IF s # <<>> /\ IsDigit(Head(s)) THEN <<Head(s)>> \o DigitPrefix(Tail(s)) ELSE <<>>

\* parseInt(s, 10) of a string without a sign: leading white space is
\* skipped, the longest digit prefix is read, no digit gives NaN
parseInt(s) ==
    LET p == DigitPrefix(TrimStart(s))
    IN  IF p = <<>> THEN NaN ELSE Num(DigitsValue(p, 0))

\* Number(s) of a string of digits, white space and letters: white space is
\* trimmed, the empty string is 0, anything that is not all digits is NaN
ToNumber(s) ==
    LET t == Trim(s)
    IN  IF t = <<>> THEN Num(0)
        ELSE IF \A i \in 1..Len(t) : IsDigit(t[i]) THEN Num(DigitsValue(t, 0))
        ELSE NaN

RECURSIVE NatToString(_)
NatToString(n) ==
    IF n < 10 THEN <<Digits[n + 1]>>
    ELSE NatToString(n \div 10) \o <<Digits[(n % 10) + 1]>>

\* String(x) of a non-negative integer or NaN
NumToString(x) == IF x.nan THEN <<"N", "a", "N">> ELSE NatToString(x.v)

\* String.prototype.padStart(2, '0')
PadStart2(s) ==
    IF Len(s) >= 2 THEN s ELSE IF Len(s) = 1 THEN <<"0">> \o s ELSE <<"0", "0">>

(***************************************************************************)
(* Destination normalizer.                                                 *)
(***************************************************************************)
KRPura == <<"K", "R", " ", "P", "u", "r", "a">>

SilkBoard == <<"S", "i", "l", "k", " ", "B", "o", "a", "r", "d">>

\* mapDestinationToLine that looks for Silk Board before KR Pura
mapDestinationToLineSilkFirst(destination) ==
    IF destination = <<>> \/ destination[1] = <<>> THEN "Unknown"
    ELSE LET normalized == Trim(destination[1])
         IN  IF normalized = SilkBoard \/ Includes(normalized, SilkBoard)
             THEN "Yellow Line"
             ELSE IF normalized = KRPura \/ Includes(normalized, KRPura)
                  THEN "Purple Line"
             ELSE "Unknown"

\* destination is <<>> when undefined, <<text>> otherwise
mapDestinationToLine(destination) ==
    IF destination = <<>> \/ destination[1] = <<>> THEN "Unknown"
    ELSE LET normalized == Trim(destination[1])
         IN  IF normalized = KRPura \/ Includes(normalized, KRPura) THEN "Purple Line"
             ELSE IF normalized = SilkBoard \/ Includes(normalized, SilkBoard)
                  THEN "Yellow Line"
             ELSE "Unknown"

(***************************************************************************)
(* CSV line parser.                                                        *)
(***************************************************************************)
\* IsFieldEnd that takes every comma as the end of a field
IsFieldEndAnyComma(char, inQuotes) == char = ","

\* the character ends the current field
IsFieldEnd(char, inQuotes) == char = "," /\ ~inQuotes

\* the body of the loop for one character; st is [result, current, inQuotes]
parseCSVChar(st, char) ==
    IF char = "\"" THEN [st EXCEPT !.inQuotes = ~st.inQuotes]
    ELSE IF IsFieldEnd(char, st.inQuotes)
         THEN [st EXCEPT !.result = Append(st.result, Trim(st.current)),
                         !.current = <<>>]
    ELSE [st EXCEPT !.current = Append(st.current, char)]

\* parseCSVEnd that gives up the field of a quote left open
parseCSVEndDropOpen(st) ==
    IF st.inQuotes THEN st.result ELSE Append(st.result, Trim(st.current))

\* the statements after the loop
parseCSVEnd(st) == Append(st.result, Trim(st.current))

RECURSIVE parseCSVLineFrom(_, _, _)
parseCSVLineFrom(line, i, st) ==
    IF i > Len(line) THEN parseCSVEnd(st)
    ELSE parseCSVLineFrom(line, i + 1, parseCSVChar(st, line[i]))

parseCSVLine(line) ==
    parseCSVLineFrom(line, 1, [result |-> <<>>, current |-> <<>>, inQuotes |-> FALSE])

(***************************************************************************)
(* Static timetable.                                                       *)
(***************************************************************************)
\* JavaScript truthiness of a value that is absent or a string
Truthy(opt) == opt # <<>> /\ opt[1] # ""

\* SetAdd that adds a value the set already has
SetAddAgain(set, x) == Append(set, x)

\* Set.prototype.add on a Set kept in insertion order
SetAdd(set, x) == IF \E i \in 1..Len(set) : set[i] = x THEN set ELSE Append(set, x)

\* SetHas that finds every value in an empty set
SetHasWhenEmpty(set, x) == set = <<>> \/ \E i \in 1..Len(set) : set[i] = x

\* Set.prototype.has
SetHas(set, x) == \E i \in 1..Len(set) : set[i] = x

\* EmptyTimetable without a line name
EmptyTimetableNoLine == [trips |-> <<>>, routes |-> <<>>, towards |-> ""]

\* the data structure returned when the static timetable cannot be loaded
EmptyTimetable == [trips |-> <<>>, routes |-> <<>>, towards |-> "Unknown"]

\* StaticTowards that lets a known line replace "Unknown"
StaticTowardsReplaceUnknown(towards, lineName) ==
    IF ~Truthy(towards) \/ towards[1] = "Unknown" THEN <<lineName>> ELSE towards

\* towards after "if (!towards) towards = lineName" of the static loop
StaticTowards(towards, lineName) ==
    IF ~Truthy(towards) THEN <<lineName>> ELSE towards

\* one iteration of the loop over lines[i], i >= 1 (the second line onwards);
\* acc is [trips, routes, towards]
StaticRow(acc, rawLine) ==
    LET line == Trim(rawLine)
        values == parseCSVLine(line)
    IN  IF line = <<>> THEN acc
        ELSE IF Len(values) >= 4
        THEN LET route_name == values[2]
                 time == values[3]
                 towards_direction == values[4]
                 lineName == mapDestinationToLine(<<towards_direction>>)
             IN  [trips |-> Append(acc.trips, [route_name |-> route_name,
                                               time |-> time,
                                               towards |-> lineName]),
                  routes |-> SetAdd(acc.routes, route_name),
                  towards |-> StaticTowards(acc.towards, lineName)]
        ELSE acc

RECURSIVE StaticRows(_, _, _)
StaticRows(acc, lines, i) ==
    IF i > Len(lines) THEN acc ELSE StaticRows(StaticRow(acc, lines[i]), lines, i + 1)

\* the value assigned to finalTowards
FinalTowardsStatic(towards) ==
    IF Truthy(towards) /\ towards[1] # "Unknown" THEN towards[1] ELSE "Unknown"

\* FirstDataLine that starts one line early, at the header
FirstDataLineHeader == 2 - 1

\* the position in lines (counted from 1) where the loop starts: "let i = 1"
\* of an array counted from 0
FirstDataLine == 2

\* fetched is the outcome of fetch(timetableUrl): kind is "reject" (the promise
\* rejects), "nonok" (a response with ok false) or "ok" (a response whose
\* text is fetched.text).  The body of the try block: threw tells that it
\* left with an exception.
loadStaticTimetableTry(fetched) ==
    IF fetched.kind # "ok" THEN [threw |-> TRUE, value |-> EmptyTimetable]
    ELSE LET lines == Split(fetched.text, "\n")
             acc == StaticRows([trips |-> <<>>, routes |-> <<>>, towards |-> <<>>],
                               lines, FirstDataLine)
         IN  [threw |-> FALSE,
              value |-> [trips |-> acc.trips,
                         routes |-> acc.routes,
                         towards |-> FinalTowardsStatic(acc.towards)]]

\* loadStaticTimetable without its catch
loadStaticTimetableNoCatch(fetched) == loadStaticTimetableTry(fetched)

\* the try block with its catch
loadStaticTimetable(fetched) ==
    LET r == loadStaticTimetableTry(fetched)
    IN  IF r.threw THEN [threw |-> FALSE, value |-> EmptyTimetable] ELSE r

(***************************************************************************)
(* Live feed: date parsing.                                                *)
(***************************************************************************)
\* the calendar day whose 00:00 UTC is instant 0 of the model
Epoch == [y |-> 2025, m |-> 10, d |-> 31]

\* the fixed offset "+05:30" of the ISO string, in milliseconds
ISTOffsetMs == (5 * 60 + 30) * 60 * 1000

MsPerDay == 24 * 60 * 60 * 1000

\* days from 1970-01-01 to the civil date y-m-d (proleptic Gregorian), as
\* Date computes them; a day past the end of the month runs into the next
DaysFromCivil(y, m, d) ==
    LET yy == IF m <= 2 THEN y - 1 ELSE y
        era == yy \div 400
        yoe == yy - era * 400
        mp == IF m > 2 THEN m - 3 ELSE m + 9
        doy == (153 * mp + 2) \div 5 + d - 1
        doe == yoe * 365 + yoe \div 4 - yoe \div 100 + doy
    IN  era * 146097 + doe - 719468

\* a[i] of an array of strings given to parseInt (undefined gives NaN)
parseIntAt(a, i) == IF i <= Len(a) THEN parseInt(a[i]) ELSE NaN

\* new Date(isoString) for the string "Y-MM-DDTHH:MM:SS+05:30" built from the
\* six numbers: the string has the ISO shape only when the year has four
\* digits and the others two; then the fields must be in range (a day up to
\* 31 in any month, 24:00:00 as the only hour 24).  Any other string is
\* taken as an Invalid Date.
DateFromFields(year, month, day, hours, minutes, seconds) ==
    IF year.nan \/ month.nan \/ day.nan \/ hours.nan \/ minutes.nan \/ seconds.nan
    THEN NaN
    ELSE IF /\ Len(NumToString(year)) = 4
            /\ Len(PadStart2(NumToString(month))) = 2
            /\ Len(PadStart2(NumToString(day))) = 2
            /\ Len(PadStart2(NumToString(hours))) = 2
            /\ Len(PadStart2(NumToString(minutes))) = 2
            /\ Len(PadStart2(NumToString(seconds))) = 2
            /\ month.v \in 1..12
            /\ day.v \in 1..31
            /\ \/ hours.v \in 0..23 /\ minutes.v \in 0..59 /\ seconds.v \in 0..59
               \/ hours.v = 24 /\ minutes.v = 0 /\ seconds.v = 0
         THEN Num((DaysFromCivil(year.v, month.v, day.v)
                     - DaysFromCivil(Epoch.y, Epoch.m, Epoch.d)) * MsPerDay
                  + hours.v * 3600000 + minutes.v * 60000 + seconds.v * 1000
                  - ISTOffsetMs)
         ELSE NaN

\* the instant of "DD-MM-YYYY HH:MM:SS" read as UTC+05:30, or NaN
parseBMTCDate(dateString) ==
    LET parts == Split(dateString, " ")
        dateParts == Split(parts[1], "-")
        timeParts == IF Len(parts) >= 2 /\ parts[2] # <<>>
                     THEN Split(parts[2], ":")
                     ELSE <<<<"0">>, <<"0">>, <<"0">>>>
        day == parseIntAt(dateParts, 1)
        monthPlus1 == parseIntAt(dateParts, 2)
        year == parseIntAt(dateParts, 3)
        hours == parseIntAt(timeParts, 1)
        minutes == parseIntAt(timeParts, 2)
        seconds == parseIntAt(timeParts, 3)
    IN  DateFromFields(year, monthPlus1, day, hours, minutes, seconds)

\* the positions where /\s(\d{2}):(\d{2}):\d{2}/ matches
TimeMatchAt(s, i) ==
    /\ i + 8 <= Len(s)
    /\ IsSpace(s[i])
    /\ IsDigit(s[i + 1]) /\ IsDigit(s[i + 2]) /\ s[i + 3] = ":"
    /\ IsDigit(s[i + 4]) /\ IsDigit(s[i + 5]) /\ s[i + 6] = ":"
    /\ IsDigit(s[i + 7]) /\ IsDigit(s[i + 8])

\* String.prototype.match of that expression: <<>> (null) or <<"HH:MM">>
TimeMatch(s) ==
    LET hits == {i \in 1..Len(s) : TimeMatchAt(s, i)}
    IN  IF hits = {} THEN <<>>
        ELSE LET i == CHOOSE k \in hits : \A j \in hits : k <= j
             IN  <<(<<s[i + 1], s[i + 2], ":", s[i + 4], s[i + 5]>>)>>

\* FallbackTimeString without the wrap of the hour at 24
FallbackTimeStringNoWrap(arrivalTime) ==
    IF arrivalTime.nan
    THEN NumToString(NaN) \o <<":">> \o NumToString(NaN)
    ELSE LET utcHours == (arrivalTime.v % MsPerDay) \div 3600000
             utcMinutes == (arrivalTime.v % 3600000) \div 60000
             h1 == utcHours + 5
             m1 == utcMinutes + 30
             istHours == IF m1 >= 60 THEN h1 + 1 ELSE h1
             istMinutes == IF m1 >= 60 THEN m1 - 60 ELSE m1
         IN  PadStart2(NatToString(istHours)) \o <<":">> \o PadStart2(NatToString(istMinutes))

\* the fallback: HH:MM rebuilt from the Date by adding 5 h 30 min to UTC
FallbackTimeString(arrivalTime) ==
    IF arrivalTime.nan
    THEN NumToString(NaN) \o <<":">> \o NumToString(NaN)
    ELSE LET utcHours == (arrivalTime.v % MsPerDay) \div 3600000
             utcMinutes == (arrivalTime.v % 3600000) \div 60000
             h1 == utcHours + 5
             m1 == utcMinutes + 30
             h2 == IF m1 >= 60 THEN h1 + 1 ELSE h1
             istMinutes == IF m1 >= 60 THEN m1 - 60 ELSE m1
             istHours == IF h2 >= 24 THEN h2 - 24 ELSE h2
         IN  PadStart2(NatToString(istHours)) \o <<":">> \o PadStart2(NatToString(istMinutes))

(***************************************************************************)
(* Live feed: conversion to the timetable format.                          *)
(***************************************************************************)
\* the window of 90 * 60 * 1000 milliseconds
WindowMinutes == 90

WindowMs == WindowMinutes * 60 * 1000

\* a - b of two numbers
NumMinus(a, b) == IF a.nan \/ b.nan THEN NaN ELSE Num(a.v - b.v)

\* a < n and a > n for a number a and an integer n (false for NaN)
NumLt(a, n) == ~a.nan /\ a.v < n

NumGt(a, n) == ~a.nan /\ a.v > n

\* RouteFiltered that lets every route through
RouteFilteredNever(allowedRoutes, routeNo) == FALSE

\* the route filter: the record is skipped
RouteFiltered(allowedRoutes, routeNo) ==
    allowedRoutes # <<>> /\ ~SetHas(allowedRoutes[1], routeNo)

\* the time filter: the record is skipped
OutsideWindow(duration_ms) == NumLt(duration_ms, 0) \/ NumGt(duration_ms, WindowMs)

\* LineName that always maps the record's destination
LineNameFromDestination(staticTowards, destination) == mapDestinationToLine(destination)

\* lineName of a surfaced trip
LineName(staticTowards, destination) ==
    IF Truthy(staticTowards) THEN staticTowards[1] ELSE mapDestinationToLine(destination)

\* LiveTowards that lets a later trip replace "Unknown"
LiveTowardsReplaceUnknown(towards, lineName) ==
    IF ~Truthy(towards) \/ towards[1] = "Unknown" THEN <<lineName>> ELSE towards

\* towards after "if (!towards) towards = lineName" of the forEach callback
LiveTowards(towards, lineName) ==
    IF ~Truthy(towards) THEN <<lineName>> ELSE towards

\* one call of the forEach callback; acc is [trips, routes, towards, threw].
\* trip is [routeno, tostationname, arrivaltime]; a missing tostationname or
\* arrivaltime is <<>>.  allowedRoutes and staticTowards are <<>> when null.
ConvertTrip(acc, trip, allowedRoutes, staticTowards, now) ==
    LET routeNo == trip.routeno
        destination == trip.tostationname
    IN  IF acc.threw THEN acc
        ELSE IF RouteFiltered(allowedRoutes, routeNo) THEN acc
        ELSE IF trip.arrivaltime = <<>> THEN [acc EXCEPT !.threw = TRUE]
        ELSE
        LET arrivalTime == parseBMTCDate(trip.arrivaltime[1])
            duration_ms == NumMinus(arrivalTime, Num(now))
            timeMatch == TimeMatch(trip.arrivaltime[1])
            timeString == IF timeMatch # <<>> THEN timeMatch[1]
                          ELSE FallbackTimeString(arrivalTime)
            lineName == LineName(staticTowards, destination)
        IN  IF OutsideWindow(duration_ms) THEN acc
            ELSE [trips |-> Append(acc.trips, [route_name |-> routeNo,
                                               time |-> timeString,
                                               towards |-> lineName]),
                  routes |-> SetAdd(acc.routes, routeNo),
                  towards |-> LiveTowards(acc.towards, lineName),
                  threw |-> FALSE]

RECURSIVE ConvertTrips(_, _, _, _, _, _)
ConvertTrips(acc, data, i, allowedRoutes, staticTowards, now) ==
    IF i > Len(data) THEN acc
    ELSE ConvertTrips(ConvertTrip(acc, data[i], allowedRoutes, staticTowards, now),
                      data, i + 1, allowedRoutes, staticTowards, now)

\* hours * 60 + minutes of a time string, as the sort's comparator computes it
TimeKey(time) ==
    LET f == Split(time, ":")
        h == ToNumber(f[1])
        m == IF Len(f) >= 2 THEN ToNumber(f[2]) ELSE NaN
    IN  IF h.nan \/ m.nan THEN NaN ELSE Num(h.v * 60 + m.v)

\* the comparator of trips.sort: aTime - bTime
CompareTrips(a, b) == NumMinus(TimeKey(a.time), TimeKey(b.time))

\* x put into a sorted list behind every element that does not compare
\* greater than it (a NaN comparison counts as 0)
RECURSIVE InsertTrip(_, _)
InsertTrip(sorted, x) ==
    IF sorted = <<>> THEN <<x>>
    ELSE IF NumGt(CompareTrips(sorted[Len(sorted)], x), 0)
         THEN Append(InsertTrip(SubSeq(sorted, 1, Len(sorted) - 1), x), sorted[Len(sorted)])
         ELSE Append(sorted, x)

RECURSIVE StableSort(_, _)
StableSort(sorted, rest) ==
    IF rest = <<>> THEN sorted ELSE StableSort(InsertTrip(sorted, Head(rest)), Tail(rest))

\* the comparator is consistent on the list unless a NaN key ties two
\* different numeric keys together
ConsistentComparator(trips) ==
    ~ \E i, j, k \in 1..Len(trips) :
        /\ TimeKey(trips[i].time).nan
        /\ ~TimeKey(trips[j].time).nan /\ ~TimeKey(trips[k].time).nan
        /\ TimeKey(trips[j].time) # TimeKey(trips[k].time)

Rearrangements(trips) ==
    {[i \in 1..Len(trips) |-> trips[p[i]]] :
        p \in {q \in [1..Len(trips) -> 1..Len(trips)] :
                  \A i, j \in 1..Len(trips) : q[i] = q[j] => i = j}}

\* Array.prototype.sort with that comparator: the stable sort when the
\* comparator is consistent, otherwise an order the engine chooses
SortTrips(trips) ==
    IF ConsistentComparator(trips) THEN {StableSort(<<>>, trips)}
    ELSE Rearrangements(trips)

\* the value assigned to finalTowards
FinalTowardsLive(staticTowards, towards) ==
    IF Truthy(staticTowards) THEN staticTowards[1]
    ELSE IF Truthy(towards) /\ towards[1] # "Unknown" THEN towards[1]
    ELSE "Unknown"

\* the outcomes of the call: [threw |-> TRUE] when the promise rejects,
\* otherwise the resolved object
convertBMTCToTimetableFormat(data, allowedRoutes, staticTowards, now) ==
    LET acc == ConvertTrips([trips |-> <<>>, routes |-> <<>>,
                             towards |-> IF Truthy(staticTowards) THEN staticTowards
                                         ELSE <<>>,
                             threw |-> FALSE],
                            data, 1, allowedRoutes, staticTowards, now)
    IN  IF acc.threw THEN {[threw |-> TRUE, trips |-> <<>>, routes |-> <<>>,
                            towards |-> "Unknown"]}
        ELSE {[threw |-> FALSE, trips |-> t, routes |-> acc.routes,
               towards |-> FinalTowardsLive(staticTowards, acc.towards)] :
                 t \in SortTrips(acc.trips)}

(***************************************************************************)
(* Inputs of the model: static files and live feeds.                       *)
(***************************************************************************)
HeaderLine == <<"i", ",", "r", ",", "t", ",", "d">>

\* route A at 10:00 towards KR Pura
RowPurpleA == <<"1", ",", "A", ",", "1", "0", ":", "0", "0", ",", "K", "R", " ", "P", "u", "r", "a">>

\* route A at 09:00 towards Silk Board
RowYellowA == <<"2", ",", "A", ",", "0", "9", ":", "0", "0", ",", "S", "i", "l", "k", " ", "B", "o", "a", "r", "d">>

\* route B at 09:30, a quoted destination with a comma
RowQuotedB == <<"3", ",", "B", ",", "0", "9", ":", "3", "0", ",", "\"", "H", "e", "b", "b", "a", "l", ",", " ", "S", "t", "a", "n", "d", "\"">>

\* a line of three fields
RowShort == <<"4", ",", "D", ",", "1", "1", ":", "0", "0">>

\* a line of white space
RowBlank == <<" ">>

DataLines == {RowPurpleA, RowYellowA, RowQuotedB, RowShort, RowBlank}

RECURSIVE JoinLines(_)
JoinLines(lines) ==
    IF Len(lines) = 1 THEN lines[1]
    ELSE lines[1] \o <<"\n">> \o JoinLines(Tail(lines))

SeqsUpTo(S, n) == UNION {[1..k -> S] : k \in 0..n}

\* the texts of the static timetable files: a header and up to MaxRows lines
StaticTexts == {JoinLines(<<HeaderLine>> \o rows) : rows \in SeqsUpTo(DataLines, MaxRows)}

\* the outcomes of fetch(timetableUrl)
StaticFetches ==
    {[kind |-> "reject", text |-> <<>>], [kind |-> "nonok", text |-> <<>>]}
      \cup {[kind |-> "ok", text |-> t] : t \in StaticTexts}

\* route A, arriving at NowBase
RecAtNow ==
    [routeno |-> <<"A">>,
     tostationname |-> <<<<"K", "R", " ", "P", "u", "r", "a">>>>,
     arrivaltime |-> <<<<"3", "1", "-", "1", "0", "-", "2", "0", "2", "5", " ", "1", "4", ":", "3", "0", ":", "0", "0">>>>]

\* route B, arriving 90 minutes after NowBase
RecAtWindowEnd ==
    [routeno |-> <<"B">>,
     tostationname |-> <<<<"S", "i", "l", "k", " ", "B", "o", "a", "r", "d">>>>,
     arrivaltime |-> <<<<"3", "1", "-", "1", "0", "-", "2", "0", "2", "5", " ", "1", "6", ":", "0", "0", ":", "0", "0">>>>]

\* route C, which no static file has
RecOtherRoute ==
    [routeno |-> <<"C">>,
     tostationname |-> <<<<"K", "R", " ", "P", "u", "r", "a">>>>,
     arrivaltime |-> <<<<"3", "1", "-", "1", "0", "-", "2", "0", "2", "5", " ", "1", "5", ":", "0", "0", ":", "0", "0">>>>]

\* route A, an empty arrivaltime and no tostationname
RecEmptyTime ==
    [routeno |-> <<"A">>,
     tostationname |-> <<>>,
     arrivaltime |-> <<<<>>>>]

\* route A, an arrivaltime with a one-digit minute
RecShortMinute ==
    [routeno |-> <<"A">>,
     tostationname |-> <<<<"K", "R", " ", "P", "u", "r", "a">>>>,
     arrivaltime |-> <<<<"3", "1", "-", "1", "0", "-", "2", "0", "2", "5", " ", "1", "5", ":", "5", ":", "0", "0">>>>]

\* route B, no arrivaltime
RecNoTime ==
    [routeno |-> <<"B">>,
     tostationname |-> <<<<"K", "R", " ", "P", "u", "r", "a">>>>,
     arrivaltime |-> <<>>]

\* the records of the live feed
LiveRecords ==
    {RecAtNow, RecAtWindowEnd, RecOtherRoute,
     RecEmptyTime, RecShortMinute, RecNoTime}

\* the instant of "31-10-2025 14:30:00" (UTC+05:30)
NowBase == 9 * 60 * 60 * 1000

\* the values new Date() takes in the adapter
Nows == {NowBase - 1, NowBase, NowBase + 1}

\* the outcomes of the live fetch: the promise rejects, the status is not OK,
\* the body is not JSON, or the body is the object result; result.data is
\* <<>> when the field is missing
LiveFetches ==
    {[kind |-> k, Issuccess |-> FALSE, data |-> <<>>] : k \in {"reject", "nonok", "badjson"}}
      \cup {[kind |-> "json", Issuccess |-> TRUE, data |-> d] :
              d \in {<<>>} \cup {<<l>> : l \in SeqsUpTo(LiveRecords, MaxLive)}}
      \cup {[kind |-> "json", Issuccess |-> FALSE, data |-> d] :
              d \in {<<>>} \cup {<<l>> : l \in SeqsUpTo(LiveRecords, 1)}}

(***************************************************************************)
(* Responses.                                                              *)
(***************************************************************************)
getCORSHeaders ==
    {<<"Access-Control-Allow-Origin", "*">>,
     <<"Access-Control-Allow-Methods", "GET, OPTIONS">>,
     <<"Access-Control-Allow-Headers", "Content-Type">>}

JSONHeader == {<<"Content-Type", "application/json">>}

NoCacheHeaders ==
    {<<"Cache-Control", "no-cache, no-store, must-revalidate">>,
     <<"Pragma", "no-cache">>,
     <<"Expires", "0">>}

\* a Response: kind tells what the body is ("none", "text", "error" or
\* "timetable"); text is the text or the error field, timetable the
\* TimetableResult of a "timetable" body
Response(status, kind, text, timetable, headers) ==
    [status |-> status, kind |-> kind, text |-> text, timetable |-> timetable,
     headers |-> headers]

handleCORS == Response(204, "none", "", <<>>, getCORSHeaders)

MethodNotAllowed == Response(405, "text", "Method not allowed", <<>>, getCORSHeaders)

StopIdRequired ==
    Response(400, "error", "stopid parameter is required", <<>>,
             JSONHeader \cup getCORSHeaders)

\* TimetableResponse without the no-cache headers
TimetableResponseCacheable(result) ==
    Response(200, "timetable", "", <<result>>, JSONHeader \cup getCORSHeaders)

TimetableResponse(result) ==
    Response(200, "timetable", "", <<result>>,
             JSONHeader \cup NoCacheHeaders \cup getCORSHeaders)

InternalError ==
    Response(500, "error", "Failed to fetch stop data", <<>>,
             JSONHeader \cup getCORSHeaders)

(***************************************************************************)
(* The live stage and the decision of onRequest.                           *)
(***************************************************************************)
\* the object a conversion resolves to
LiveResult(r) == [trips |-> r.trips, routes |-> r.routes, towards |-> r.towards]

\* the body of the inner try block, once the live fetch has the outcome
\* fetched: the values it leaves in liveData (<<>> is null), with threw when
\* it leaves with an exception
LiveAttempt(fetched, allowedRoutes, staticTowards, now) ==
    IF fetched.kind \in {"reject", "badjson"} THEN {[threw |-> TRUE, liveData |-> <<>>]}
    ELSE IF fetched.kind = "nonok" THEN {[threw |-> FALSE, liveData |-> <<>>]}
    ELSE IF fetched.Issuccess /\ fetched.data # <<>> /\ Len(fetched.data[1]) > 0
    THEN {IF r.threw THEN [threw |-> TRUE, liveData |-> <<>>]
          ELSE [threw |-> FALSE, liveData |-> <<LiveResult(r)>>] :
            r \in convertBMTCToTimetableFormat(fetched.data[1], <<allowedRoutes>>,
                                               <<staticTowards>>, now)}
    ELSE {[threw |-> FALSE, liveData |-> <<>>]}

\* LiveStage without its catch
LiveStageNoCatch(fetched, allowedRoutes, staticTowards, now) ==
    LiveAttempt(fetched, allowedRoutes, staticTowards, now)

\* the inner try block with its catch
LiveStage(fetched, allowedRoutes, staticTowards, now) ==
    {IF r.threw THEN [threw |-> FALSE, liveData |-> <<>>] ELSE r :
       r \in LiveAttempt(fetched, allowedRoutes, staticTowards, now)}

\* ServeLive that also serves a live result without trips
ServeLiveEvenEmpty(liveData) == liveData # <<>>

\* which result the handler returns
ServeLive(liveData) == liveData # <<>> /\ Len(liveData[1].trips) > 0

(***************************************************************************)
(* The request handler as a state machine.                                 *)
(***************************************************************************)
Methods == {"GET", "OPTIONS", "POST", "HEAD"}

\* MethodAllowed that lets POST through as well
MethodAllowedAlsoPost(m) == m \in {"GET", "POST"}

\* the method passes "request.method !== 'GET'"
MethodAllowed(m) == m = "GET"

\* StopIdMissing that only looks for an absent parameter
StopIdMissingOnlyNull(sid) == sid = <<>>

\* "!stopId": the parameter is absent or empty
StopIdMissing(sid) == ~Truthy(sid)

\* IssueFetch that issues the request a second time
IssueFetchTwice(count) == count + 2

\* the number of requests issued after one more call of fetch
IssueFetch(count) == count + 1

\* AdapterArgs that passes a fixed direction
AdapterArgsFixedTowards(static) ==
    [allowedRoutes |-> static.routes, staticTowards |-> "Unknown"]

\* the allowedRoutes (new Set(staticData.routes)) and staticTowards
\* (staticData.towards) handed to convertBMTCToTimetableFormat
AdapterArgs(static) ==
    [allowedRoutes |-> static.routes, staticTowards |-> static.towards]

\* the stopid query parameter: absent, empty or a stop identifier
StopIds == {<<>>, <<"">>, <<"20568">>}

VARIABLES
    pc,               \* "idle", "awaitStatic", "awaitLive" or "done"
    method,           \* request.method
    stopId,           \* url.searchParams.get('stopid')
    staticFetched,    \* the outcome of the static fetch, once it has one
    staticFetchCount, \* the fetches of the static timetable in this request
    staticData,       \* staticData of onRequest, once assigned
    liveFetched,      \* the outcome of the live fetch, once it has one
    liveFetchCount,   \* the fetches of the live feed in this request
    now,              \* now of the conversion, when it was called
    adapterArgs,      \* the arguments of the conversion, when it was called
    liveData,         \* liveData of onRequest
    served,           \* which return statement built the 200 response
    response          \* the Response returned

\* a call of mapDestinationToLine on its own
VARIABLES
    destPc,           \* "idle", "call" or "returned"
    destArg,          \* the argument destination
    destLine          \* the value returned

\* a call of parseCSVLine on its own, one loop iteration at a time
VARIABLES
    csvPc,            \* "idle", "loop" or "returned"
    csvLine,          \* the argument line
    csvI,             \* i, counted from 1
    csvResult,        \* result, and the value returned
    csvCurrent,       \* current
    csvInQuotes       \* inQuotes

\* a call of convertBMTCToTimetableFormat on its own
VARIABLES
    convPc,             \* "idle", "call" or "settled"
    convData,           \* the argument data
    convAllowedRoutes,  \* the argument allowedRoutes (<<>> is null)
    convStaticTowards,  \* the argument staticTowards (<<>> is null)
    convNow,            \* the value of new Date() in the call
    convResult          \* the outcome: <<>> before the call settles

\* the fallback branch of the time string on its own
VARIABLES
    fallbackPc,         \* "idle", "call" or "returned"
    fallbackHours,      \* the hour written in the arrival text
    fallbackMinutes,    \* the minute written in the arrival text
    fallbackArrival,    \* arrivalTime, the Date parsed from the text
    fallbackTime        \* timeString

\* the page of the client: the stop selected, the details shown and the
\* requests under way
VARIABLES
    nearestStop,            \* <<>> (null) or <<id of the stop>>
    stopDetails,            \* <<>> (null) or <<[id, timetable]>>
    showFallbackUI,
    isLoadingLiveData,
    loadingStopId,          \* <<>> (null) or <<id>>
    timetableData,          \* the stops window.timetableData has an entry for
    oppositeDirectionStops,
    currentStopIndex,
    refreshInterval,        \* an interval timer is set
    pendingLoads,           \* per stop, the calls of showStopDetails waiting
                            \* for the fetch of loadTimetableForStop
    pendingLive,            \* per stop, the calls of fetchLiveDataForStop
                            \* waiting for their fetch
    selections,             \* how many stop selections were made
    refreshes               \* how many times the interval timer fired

requestVars == <<pc, method, stopId, staticFetched, staticFetchCount, staticData,
                 liveFetched, liveFetchCount, now, adapterArgs, liveData, served, response>>

destVars == <<destPc, destArg, destLine>>

csvVars == <<csvPc, csvLine, csvI, csvResult, csvCurrent, csvInQuotes>>

convVars == <<convPc, convData, convAllowedRoutes, convStaticTowards, convNow, convResult>>

fallbackVars == <<fallbackPc, fallbackHours, fallbackMinutes, fallbackArrival, fallbackTime>>

clientVars == <<nearestStop, stopDetails, showFallbackUI, isLoadingLiveData, loadingStopId, timetableData,
                oppositeDirectionStops, currentStopIndex, refreshInterval, pendingLoads,
                pendingLive, selections, refreshes>>

vars == <<requestVars, destVars, csvVars, convVars, fallbackVars, clientVars>>

\* allStops: the ids of the stops; a1 and a2 are the two directions of one
\* stop name, b1 is a stop of another name
AllStops == <<"a1", "a2", "b1">>

StopIdsOfPage == {AllStops[i] : i \in 1..Len(AllStops)}

StopName(id) == IF id \in {"a1", "a2"} THEN "a" ELSE "b"

\* the page after onMount: no stop selected, nothing requested
ClientIdle ==
    /\ nearestStop = <<>>
    /\ stopDetails = <<>>
    /\ showFallbackUI = FALSE
    /\ isLoadingLiveData = FALSE
    /\ loadingStopId = <<>>
    /\ timetableData = {}
    /\ oppositeDirectionStops = <<>>
    /\ currentStopIndex = 0
    /\ refreshInterval = FALSE
    /\ pendingLoads = [s \in StopIdsOfPage |-> 0]
    /\ pendingLive = [s \in StopIdsOfPage |-> 0]
    /\ selections = 0
    /\ refreshes = 0

\* no call of convertBMTCToTimetableFormat on its own
ConvIdle ==
    /\ convPc = "idle"
    /\ convData = <<>>
    /\ convAllowedRoutes = <<>>
    /\ convStaticTowards = <<>>
    /\ convNow = 0
    /\ convResult = <<>>

\* no run of the fallback branch on its own
FallbackIdle ==
    /\ fallbackPc = "idle"
    /\ fallbackHours = 0
    /\ fallbackMinutes = 0
    /\ fallbackArrival = NaN
    /\ fallbackTime = <<>>

\* no call of mapDestinationToLine on its own
DestIdle == destPc = "idle" /\ destArg = <<>> /\ destLine = ""

\* no call of parseCSVLine on its own
CsvIdle ==
    /\ csvPc = "idle"
    /\ csvLine = <<>>
    /\ csvI = 1
    /\ csvResult = <<>>
    /\ csvCurrent = <<>>
    /\ csvInQuotes = FALSE

\* no request
RequestIdle ==
    /\ pc = "idle"
    /\ method = ""
    /\ stopId = <<>>
    /\ staticFetched = <<>>
    /\ staticFetchCount = 0
    /\ staticData = <<>>
    /\ liveFetched = <<>>
    /\ liveFetchCount = 0
    /\ now = <<>>
    /\ adapterArgs = <<>>
    /\ liveData = <<>>
    /\ served = "none"
    /\ response = <<>>

Init == RequestIdle /\ DestIdle /\ CsvIdle /\ ConvIdle /\ FallbackIdle /\ ClientIdle

\* onRequest up to its first await: the method and stopid checks, then the
\* call of loadStaticTimetable, which issues the static fetch
OnRequest(m, sid) ==
    /\ pc = "idle"
    /\ method' = m
    /\ stopId' = sid
    /\ IF m = "OPTIONS"
       THEN /\ response' = <<handleCORS>>
            /\ pc' = "done"
            /\ UNCHANGED staticFetchCount
       ELSE IF ~MethodAllowed(m)
       THEN /\ response' = <<MethodNotAllowed>>
            /\ pc' = "done"
            /\ UNCHANGED staticFetchCount
       ELSE IF StopIdMissing(sid)
       THEN /\ response' = <<StopIdRequired>>
            /\ pc' = "done"
            /\ UNCHANGED staticFetchCount
       ELSE /\ response' = <<>>
            /\ pc' = "awaitStatic"
            /\ staticFetchCount' = IssueFetch(staticFetchCount)
    /\ UNCHANGED <<staticFetched, staticData, liveFetched, liveFetchCount, now,
                   adapterArgs, liveData, served>>
    /\ UNCHANGED <<destVars, csvVars, convVars, fallbackVars, clientVars>>

\* the static fetch settles: loadStaticTimetable returns, and onRequest goes
\* on to issue the live fetch
StaticLoaded(fetched) ==
    /\ pc = "awaitStatic"
    /\ staticFetched' = <<fetched>>
    /\ LET r == loadStaticTimetable(fetched)
       IN  IF r.threw
           THEN /\ response' = <<InternalError>>
                /\ pc' = "done"
                /\ UNCHANGED <<staticData, liveFetchCount>>
           ELSE /\ staticData' = <<r.value>>
                /\ liveFetchCount' = IssueFetch(liveFetchCount)
                /\ pc' = "awaitLive"
                /\ UNCHANGED response
    /\ UNCHANGED <<method, stopId, staticFetchCount, liveFetched, now, adapterArgs,
                   liveData, served>>
    /\ UNCHANGED <<destVars, csvVars, convVars, fallbackVars, clientVars>>

\* the live fetch settles: the rest of onRequest, up to its return
LiveSettled(fetched, n) ==
    /\ pc = "awaitLive"
    /\ liveFetched' = <<fetched>>
    /\ \E r \in LiveStage(fetched, AdapterArgs(staticData[1]).allowedRoutes,
                           AdapterArgs(staticData[1]).staticTowards, n) :
         /\ now' = IF fetched.kind = "json" /\ fetched.Issuccess /\ fetched.data # <<>>
                      /\ Len(fetched.data[1]) > 0
                   THEN <<n>> ELSE <<>>
         /\ adapterArgs' = IF fetched.kind = "json" /\ fetched.Issuccess
                              /\ fetched.data # <<>> /\ Len(fetched.data[1]) > 0
                           THEN <<AdapterArgs(staticData[1])>> ELSE <<>>
         /\ IF r.threw
            THEN /\ response' = <<InternalError>>
                 /\ UNCHANGED <<liveData, served>>
            ELSE /\ liveData' = r.liveData
                 /\ IF ServeLive(r.liveData)
                    THEN /\ served' = "live"
                         /\ response' = <<TimetableResponse(r.liveData[1])>>
                    ELSE /\ served' = "static"
                         /\ response' = <<TimetableResponse(staticData[1])>>
    /\ pc' = "done"
    /\ UNCHANGED <<method, stopId, staticFetched, staticFetchCount, staticData,
                   liveFetchCount>>
    /\ UNCHANGED <<destVars, csvVars, convVars, fallbackVars, clientVars>>

\* the invocation is over; the next one starts from nothing
NextRequest ==
    /\ pc = "done"
    /\ pc' = "idle"
    /\ method' = ""
    /\ stopId' = <<>>
    /\ staticFetched' = <<>>
    /\ staticFetchCount' = 0
    /\ staticData' = <<>>
    /\ liveFetched' = <<>>
    /\ liveFetchCount' = 0
    /\ now' = <<>>
    /\ adapterArgs' = <<>>
    /\ liveData' = <<>>
    /\ served' = "none"
    /\ response' = <<>>
    /\ UNCHANGED <<destVars, csvVars, convVars, fallbackVars, clientVars>>

Next ==
    \/ \E m \in Methods, sid \in StopIds : OnRequest(m, sid)
    \/ \E f \in StaticFetches : StaticLoaded(f)
    \/ \E f \in LiveFetches, n \in Nows : LiveSettled(f, n)
    \/ NextRequest

Spec == Init /\ [][Next]_vars

(***************************************************************************)
(* mapDestinationToLine on its own, over texts put together from pieces.   *)
(***************************************************************************)
MaxFragments == 3

\* pieces of destination names: the two names looked for, a name cut short,
\* white space and another character
Fragments == {KRPura, SilkBoard, SubSeq(KRPura, 1, 6), <<" ">>, <<"x">>}

RECURSIVE Concat(_)
Concat(ss) == IF ss = <<>> THEN <<>> ELSE Head(ss) \o Concat(Tail(ss))

\* the arguments: undefined, or a text of up to MaxFragments pieces
DestinationArgs ==
    {<<>>} \cup {<<Concat(ss)>> : ss \in SeqsUpTo(Fragments, MaxFragments)}

NormalizerInit ==
    /\ RequestIdle
    /\ CsvIdle
    /\ ConvIdle
    /\ FallbackIdle
    /\ ClientIdle
    /\ destPc = "call"
    /\ destArg \in DestinationArgs
    /\ destLine = ""

\* the call returns
Normalize ==
    /\ destPc = "call"
    /\ destPc' = "returned"
    /\ destLine' = mapDestinationToLine(destArg)
    /\ UNCHANGED <<destArg, requestVars, csvVars, convVars, fallbackVars, clientVars>>

NormalizerNext == Normalize

NormalizerSpec == NormalizerInit /\ [][NormalizerNext]_vars

(***************************************************************************)
(* Properties.                                                             *)
(***************************************************************************)
\* the request has been answered with status 200
Answered200 == pc = "done" /\ response # <<>> /\ response[1].status = 200

\* the set of the elements of a sequence
Range(seq) == {seq[i] : i \in 1..Len(seq)}

\* the route set of the static schedule loaded for the request
StaticRouteSet == Range(staticData[1].routes)

\* the data array the live feed returned, when it returned one
FeedData ==
    IF liveFetched # <<>> /\ liveFetched[1].kind = "json" /\ liveFetched[1].data # <<>>
    THEN liveFetched[1].data[1] ELSE <<>>

\* C1: the 200 response of a GET request with a stop id has the live-derived
\* result as its body if and only if the live adapter produced a result with
\* at least one trip; in every other case the body is the static-derived
\* result.
C1_LiveIffNonEmpty ==
    Answered200 =>
        /\ response[1].kind = "timetable"
        /\ IF liveData # <<>> /\ Len(liveData[1].trips) >= 1
           THEN served = "live" /\ response[1].timetable = liveData
           ELSE served = "static" /\ response[1].timetable = staticData

\* a live result with trips is served although the static result has trips
\* of its own, and a request whose live result has no trip is another case
C1_Witness ==
    /\ Answered200
    /\ served = "live"
    /\ staticData[1].trips # <<>>
    /\ response[1].timetable # staticData

\* the live feed of the request is unusable: the fetch rejected, the status
\* was not OK, the body was not JSON, Issuccess was false, data was missing
\* or empty, or a record on an allowed route made the conversion throw
LiveUnusable ==
    /\ liveFetched # <<>>
    /\ \/ liveFetched[1].kind \in {"reject", "nonok", "badjson"}
       \/ ~liveFetched[1].Issuccess
       \/ liveFetched[1].data = <<>>
       \/ liveFetched[1].data[1] = <<>>
       \/ \E i \in 1..Len(FeedData) :
            FeedData[i].routeno \in StaticRouteSet /\ FeedData[i].arrivaltime = <<>>

\* C2: whenever the live feed is unusable, the request is answered 200 with
\* the static-derived result, never with an error response.
C2_LiveFailureServesStatic ==
    (pc = "done" /\ LiveUnusable) =>
        /\ response[1].status = 200
        /\ response[1].kind = "timetable"
        /\ response[1].timetable = staticData
        /\ served = "static"

\* the conversion threw on a record without arrivaltime, and the static
\* result with its trips was served
C2_Witness ==
    /\ Answered200
    /\ LiveUnusable
    /\ liveFetched[1].kind = "json" /\ liveFetched[1].Issuccess
    /\ \E i \in 1..Len(FeedData) :
         FeedData[i].routeno \in StaticRouteSet /\ FeedData[i].arrivaltime = <<>>
    /\ staticData[1].trips # <<>>

\* C3: a GET request with a non-empty stopid is answered 200 with a
\* TimetableResult body whatever the outcomes of the two fetches; 500 is not
\* reachable from a data-loading failure.
C3_AlwaysTimetable200 ==
    (pc = "done" /\ method = "GET" /\ Truthy(stopId)) =>
        /\ response[1].status = 200
        /\ response[1].kind = "timetable"
        /\ response[1].timetable # <<>>
        /\ response[1].timetable[1].towards \in {"Yellow Line", "Purple Line", "Unknown"}

\* both fetches failed and the answer is 200
C3_Witness ==
    /\ Answered200
    /\ staticFetched # <<>> /\ staticFetched[1].kind = "reject"
    /\ liveFetched # <<>> /\ liveFetched[1].kind = "badjson"

\* C4: no live record whose route is outside allowedRoutes appears in the
\* trips of a live-derived result, and every trip of a 200 response has a
\* route_name of the static schedule's route set.
C4_OnlyAllowedRoutes ==
    /\ (pc = "done" /\ liveData # <<>>) =>
          \A i \in 1..Len(liveData[1].trips) :
             liveData[1].trips[i].route_name \in StaticRouteSet
    /\ Answered200 =>
          \A i \in 1..Len(response[1].timetable[1].trips) :
             response[1].timetable[1].trips[i].route_name \in StaticRouteSet

\* a live result is served from a feed that also has an arrival inside the
\* window on a route the static schedule does not have
C4_Witness ==
    /\ Answered200
    /\ served = "live"
    /\ \E i \in 1..Len(FeedData) :
         /\ FeedData[i].routeno \notin StaticRouteSet
         /\ FeedData[i].arrivaltime # <<>>
         /\ LET d == NumMinus(parseBMTCDate(FeedData[i].arrivaltime[1]), Num(now[1]))
            IN  ~d.nan /\ d.v >= 0 /\ d.v <= WindowMs

\* duration to arrival of record i of the feed, on the adapter's clock
FeedDuration(i) == NumMinus(parseBMTCDate(FeedData[i].arrivaltime[1]), Num(now[1]))

\* record i of the feed is on an allowed route and arrives not before now
\* and not more than 90 minutes after it
FeedInWindow(i) ==
    /\ FeedData[i].routeno \in StaticRouteSet
    /\ FeedData[i].arrivaltime # <<>>
    /\ ~FeedDuration(i).nan
    /\ FeedDuration(i).v >= 0
    /\ FeedDuration(i).v <= 90 * 60 * 1000

\* C5: a live record on an allowed route is excluded exactly when its arrival
\* instant is before now or more than 90 minutes after it, so the surfaced
\* trips are the records with 0 <= arrival - now <= 90 min, boundaries kept.
C5_WindowExact ==
    (pc = "done" /\ liveData # <<>>) =>
        LET kept == {i \in 1..Len(FeedData) : FeedInWindow(i)}
        IN  /\ Len(liveData[1].trips) = Cardinality(kept)
            /\ \A k \in 1..Len(liveData[1].trips) :
                 \E i \in kept : FeedData[i].routeno = liveData[1].trips[k].route_name

\* no trip has a later time of day than a trip behind it
SortedByTime(trips) ==
    \A i, j \in 1..Len(trips) :
        i < j => ~NumGt(NumMinus(TimeKey(trips[i].time), TimeKey(trips[j].time)), 0)

\* C6: in every TimetableResult returned to the client, live-served or
\* static-served, trips is sorted non-decreasing by hours*60+minutes.
C6_ResponseSorted == Answered200 => SortedByTime(response[1].timetable[1].trips)

\* routes has no duplicates and is the set of the route names of trips
RoutesMatchTrips(result) ==
    /\ \A i, j \in 1..Len(result.routes) : result.routes[i] = result.routes[j] => i = j
    /\ Range(result.routes) = {result.trips[k].route_name : k \in 1..Len(result.trips)}

\* C7: in every result of loadStaticTimetable or convertBMTCToTimetableFormat,
\* routes has no duplicates and is exactly the set of route_name values of
\* trips.
C7_RoutesAreTripRoutes ==
    /\ staticData # <<>> => RoutesMatchTrips(staticData[1])
    /\ liveData # <<>> => RoutesMatchTrips(liveData[1])

\* a static and a live result that both have two trips of one route
C7_Witness ==
    /\ pc = "done"
    /\ liveData # <<>>
    /\ Len(liveData[1].trips) = 2 /\ Len(liveData[1].routes) = 1
    /\ Len(staticData[1].trips) = 2 /\ Len(staticData[1].routes) = 1

\* C8: in every live-derived result returned by onRequest, each trip's
\* towards equals the result's towards, and both equal the towards of the
\* static schedule of the request, whatever the live records' destinations.
C8_LiveTowardsIsStatic ==
    (Answered200 /\ served = "live") =>
        /\ response[1].timetable[1].towards = staticData[1].towards
        /\ \A k \in 1..Len(response[1].timetable[1].trips) :
             response[1].timetable[1].trips[k].towards = staticData[1].towards

\* a live result is served whose only record names a destination of another
\* line than the static schedule's
C8_Witness ==
    /\ Answered200
    /\ served = "live"
    /\ Len(FeedData) = 1
    /\ mapDestinationToLine(FeedData[1].tostationname) = "Yellow Line"
    /\ staticData[1].towards = "Purple Line"

\* C9: if the static fetch rejects or returns a non-OK status,
\* loadStaticTimetable does not throw and returns {trips: [], routes: [],
\* towards: "Unknown"}, and the request continues to the live stage.
C9_StaticFailureGivesEmpty ==
    (staticFetched # <<>> /\ staticFetched[1].kind \in {"reject", "nonok"}) =>
        /\ staticData = <<[trips |-> <<>>, routes |-> <<>>, towards |-> "Unknown"]>>
        /\ liveFetchCount = 1
        /\ pc = "awaitLive" \/ (pc = "done" /\ liveFetched # <<>>)
        /\ pc = "done" => response[1].status = 200

\* the static fetch answered with a non-OK status and the live fetch is
\* under way
C9_Witness ==
    /\ pc = "awaitLive"
    /\ staticFetched[1].kind = "nonok"
    /\ liveFetchCount = 1

\* the fields of every line of the fetched static file
StaticFields ==
    LET lines == Split(staticFetched[1].text, "\n")
    IN  [i \in 1..Len(lines) |-> parseCSVLine(Trim(lines[i]))]

\* the lines of fields that are data rows the loader accepts: not the first
\* line, not blank, at least 4 fields (a blank line parses to one empty field)
AcceptedRows(fields) == {i \in 2..Len(fields) : Len(fields[i]) >= 4}

\* the normalized destination of a line
RowLine(fields, i) == mapDestinationToLine(<<fields[i][4]>>)

\* C10: the towards of a static result is the normalized destination of the
\* first accepted data row, and no later row changes it, also when the first
\* row normalizes to "Unknown" and a later one to a known line.
C10_FirstRowDefinesTowards ==
    (staticData # <<>> /\ staticFetched[1].kind = "ok") =>
        LET fields == StaticFields
            rows == AcceptedRows(fields)
        IN  \A i \in rows :
                (\A j \in rows : i <= j) => staticData[1].towards = RowLine(fields, i)

\* the first accepted row normalizes to "Unknown" and a later accepted row
\* to "Purple Line"
C10_Witness ==
    /\ staticData # <<>> /\ staticFetched[1].kind = "ok"
    /\ staticData[1].towards = "Unknown"
    /\ LET fields == StaticFields
           rows == AcceptedRows(fields)
       IN  \E i, j \in rows :
             /\ i < j
             /\ \A k \in rows : i <= k
             /\ RowLine(fields, i) = "Unknown" /\ RowLine(fields, j) = "Purple Line"

\* the trip the loader makes of a line of fields
RowTrip(fields, i) ==
    [route_name |-> fields[i][2], time |-> fields[i][3], towards |-> RowLine(fields, i)]

\* C15: loadStaticTimetable produces exactly one trip, in file order, for
\* each non-blank line after the first that parses to at least 4 fields; the
\* first line never produces a trip, and a line with fewer than 4 fields
\* produces no trip and no route and does not influence towards.
C15_OneTripPerDataRow ==
    (staticData # <<>> /\ staticFetched[1].kind = "ok") =>
        LET fields == StaticFields
            rows == AcceptedRows(fields)
            trips == staticData[1].trips
        IN  /\ Len(trips) = Cardinality(rows)
            /\ \A i \in rows :
                 trips[Cardinality({k \in rows : k <= i})] = RowTrip(fields, i)
            /\ Range(staticData[1].routes) = {fields[i][2] : i \in rows}
            /\ staticData[1].towards \in {RowLine(fields, i) : i \in rows} \cup {"Unknown"}
            /\ \A i \in rows :
                 (\A j \in rows : i <= j) => staticData[1].towards = RowLine(fields, i)

\* a file whose header has the 4 fields of a data row, followed by a line of
\* 3 fields and a data row, gave the one trip of the data row
C15_Witness ==
    /\ staticData # <<>> /\ staticFetched[1].kind = "ok"
    /\ LET fields == StaticFields
       IN  /\ Len(fields) = 3
           /\ Len(fields[1]) >= 4
           /\ Len(fields[2]) = 3
           /\ AcceptedRows(fields) = {3}
           /\ staticData[1].trips = <<RowTrip(fields, 3)>>
           /\ Range(staticData[1].routes) = {fields[3][2]}
           /\ staticData[1].towards = "Purple Line"

(***************************************************************************)
(* parseCSVLine on its own, one loop iteration at a time.                  *)
(***************************************************************************)
MaxLineLength == 5

\* the characters of the lines: a letter, the comma, the quote, a space
CsvChars == {"a", ",", "\"", " "}

CsvLines == SeqsUpTo(CsvChars, MaxLineLength)

ParserInit ==
    /\ RequestIdle
    /\ DestIdle
    /\ ConvIdle
    /\ FallbackIdle
    /\ ClientIdle
    /\ csvPc = "loop"
    /\ csvLine \in CsvLines
    /\ csvI = 1
    /\ csvResult = <<>>
    /\ csvCurrent = <<>>
    /\ csvInQuotes = FALSE

\* one iteration of the for loop
ParseChar ==
    /\ csvPc = "loop"
    /\ csvI <= Len(csvLine)
    /\ LET st == parseCSVChar([result |-> csvResult, current |-> csvCurrent,
                               inQuotes |-> csvInQuotes], csvLine[csvI])
       IN  /\ csvResult' = st.result
           /\ csvCurrent' = st.current
           /\ csvInQuotes' = st.inQuotes
    /\ csvI' = csvI + 1
    /\ UNCHANGED <<csvPc, csvLine, requestVars, destVars, convVars, fallbackVars,
                   clientVars>>

\* the loop is over: the last field is pushed and result returned
ParseEnd ==
    /\ csvPc = "loop"
    /\ csvI > Len(csvLine)
    /\ csvResult' = parseCSVEnd([result |-> csvResult, current |-> csvCurrent,
                                 inQuotes |-> csvInQuotes])
    /\ csvPc' = "returned"
    /\ UNCHANGED <<csvLine, csvI, csvCurrent, csvInQuotes, requestVars, destVars,
                   convVars, fallbackVars, clientVars>>

ParserNext == ParseChar \/ ParseEnd

ParserSpec == ParserInit /\ [][ParserNext]_vars

\* the loop is a synchronous for loop: it goes on until it is over
FairParserSpec == ParserSpec /\ WF_vars(ParserNext)

(***************************************************************************)
(* convertBMTCToTimetableFormat on its own.                                *)
(***************************************************************************)
MaxFeed == 3

\* route B, arriving at NowBase like RecAtNow
RecTieB ==
    [routeno |-> <<"B">>,
     tostationname |-> <<<<"S", "i", "l", "k", " ", "B", "o", "a", "r", "d">>>>,
     arrivaltime |-> <<<<"3", "1", "-", "1", "0", "-", "2", "0", "2", "5", " ", "1", "4", ":", "3", "0", ":", "0", "0">>>>]

\* route A, 30 minutes after NowBase, towards a place on neither line
RecUnknownLine ==
    [routeno |-> <<"A">>,
     tostationname |-> <<<<"H", "e", "b", "b", "a", "l">>>>,
     arrivaltime |-> <<<<"3", "1", "-", "1", "0", "-", "2", "0", "2", "5", " ", "1", "5", ":", "0", "0", ":", "0", "0">>>>]

\* the records of the feeds given to the conversion
ConvRecords == {RecAtNow, RecTieB, RecUnknownLine, RecOtherRoute, RecEmptyTime}

\* allowedRoutes: null, or the Set of the routes A and B
ConvAllowedRoutes == {<<>>, << << <<"A">>, <<"B">> >> >>}

\* staticTowards: null, the empty string, or a line name
ConvStaticTowards == {<<>>, <<"">>, <<"Yellow Line">>}

ConverterInit ==
    /\ RequestIdle
    /\ DestIdle
    /\ CsvIdle
    /\ FallbackIdle
    /\ ClientIdle
    /\ convPc = "call"
    /\ convData \in SeqsUpTo(ConvRecords, MaxFeed)
    /\ convAllowedRoutes \in ConvAllowedRoutes
    /\ convStaticTowards \in ConvStaticTowards
    /\ convNow \in {NowBase, NowBase + 1}
    /\ convResult = <<>>

\* the promise of the call settles
Convert ==
    /\ convPc = "call"
    /\ convPc' = "settled"
    /\ \E r \in convertBMTCToTimetableFormat(convData, convAllowedRoutes,
                                              convStaticTowards, convNow) :
         convResult' = <<r>>
    /\ UNCHANGED <<convData, convAllowedRoutes, convStaticTowards, convNow>>
    /\ UNCHANGED <<requestVars, destVars, csvVars, fallbackVars, clientVars>>

ConverterNext == Convert

ConverterSpec == ConverterInit /\ [][ConverterNext]_vars

\* the conversion on longer feeds whose records all pass the route filter,
\* with no allowedRoutes and no staticTowards
MaxSortFeed == 4

SortRecords == {RecAtNow, RecTieB, RecUnknownLine, RecEmptyTime}

SortInit ==
    /\ RequestIdle
    /\ DestIdle
    /\ CsvIdle
    /\ FallbackIdle
    /\ ClientIdle
    /\ convPc = "call"
    /\ convData \in SeqsUpTo(SortRecords, MaxSortFeed)
    /\ convAllowedRoutes = <<>>
    /\ convStaticTowards = <<>>
    /\ convNow = NowBase
    /\ convResult = <<>>

SortSpec == SortInit /\ [][ConverterNext]_vars

(***************************************************************************)
(* The time string of an arrival text without the " HH:MM:SS" shape.       *)
(***************************************************************************)
\* an arrivaltime of 31-10-2025 with the hour and the minute written without
\* leading zeros and a one-digit second
FallbackText(hours, minutes) ==
    <<"3", "1", "-", "1", "0", "-", "2", "0", "2", "5", " ">>
      \o NatToString(hours) \o <<":">> \o NatToString(minutes) \o <<":", "0">>

FallbackInit ==
    /\ RequestIdle
    /\ DestIdle
    /\ CsvIdle
    /\ ConvIdle
    /\ ClientIdle
    /\ fallbackPc = "call"
    /\ fallbackHours \in 0..23
    /\ fallbackMinutes \in 0..59
    /\ fallbackArrival = NaN
    /\ fallbackTime = <<>>

\* arrivalTime is parsed and timeString built for the text
BuildTimeString ==
    /\ fallbackPc = "call"
    /\ fallbackPc' = "returned"
    /\ LET arrivaltime == FallbackText(fallbackHours, fallbackMinutes)
           arrivalTime == parseBMTCDate(arrivaltime)
           timeMatch == TimeMatch(arrivaltime)
       IN  /\ fallbackArrival' = arrivalTime
           /\ fallbackTime' = IF timeMatch # <<>> THEN timeMatch[1]
                               ELSE FallbackTimeString(arrivalTime)
    /\ UNCHANGED <<fallbackHours, fallbackMinutes>>
    /\ UNCHANGED <<requestVars, destVars, csvVars, convVars, clientVars>>

FallbackNext == BuildTimeString

FallbackSpec == FallbackInit /\ [][FallbackNext]_vars

(***************************************************************************)
(* The page of the client: stop selections and the requests they start.    *)
(***************************************************************************)
MaxSelections == 3

MaxRefreshes == 1

\* the stops of allStops with the same name and another id
findOppositeDirectionStops(id) ==
    SelectSeq(AllStops, LAMBDA x : StopName(x) = StopName(id) /\ x # id)

\* showStopDetails from the return of loadTimetableForStop on: the details
\* of stop s are shown, then fetchLiveDataForStop up to its fetch, then
\* startAutoRefresh
ShowLoadedStop(s) ==
    /\ stopDetails' = <<[id |-> s, timetable |-> [stop |-> s, source |-> "loaded"]]>>
    /\ oppositeDirectionStops' = findOppositeDirectionStops(s)
    /\ currentStopIndex' = 0
    /\ isLoadingLiveData' = TRUE
    /\ loadingStopId' = <<s>>
    /\ pendingLive' = [pendingLive EXCEPT ![s] = @ + 1]
    /\ refreshInterval' = TRUE

\* showStopDetails(s), called with currentStopIndex being index: with an
\* entry of timetableData the awaited promise is already resolved and the
\* rest runs before any other event; otherwise the call waits for the fetch
showStopDetails(s, index) ==
    IF s \in timetableData
    THEN /\ ShowLoadedStop(s)
         /\ UNCHANGED <<pendingLoads, timetableData>>
    ELSE /\ isLoadingLiveData' = FALSE
         /\ loadingStopId' = <<>>
         /\ currentStopIndex' = index
         /\ pendingLoads' = [pendingLoads EXCEPT ![s] = @ + 1]
         /\ UNCHANGED <<stopDetails, oppositeDirectionStops, refreshInterval, pendingLive,
                        timetableData>>

\* a click on a stop, or on the map next to it
selectStop(s) ==
    /\ selections < MaxSelections
    /\ selections' = selections + 1
    /\ nearestStop' = <<s>>
    /\ showStopDetails(s, currentStopIndex)
    /\ showFallbackUI' = FALSE
    /\ UNCHANGED refreshes
    /\ UNCHANGED <<requestVars, destVars, csvVars, convVars, fallbackVars>>

\* findNearestStop from "nearestStop = nearestStopData" on; s is the stop
\* nearest to the user's location, or the default stop
findNearestStop(s) ==
    /\ selections < MaxSelections
    /\ selections' = selections + 1
    /\ nearestStop' = <<s>>
    /\ showStopDetails(s, currentStopIndex)
    /\ UNCHANGED showFallbackUI
    /\ UNCHANGED refreshes
    /\ UNCHANGED <<requestVars, destVars, csvVars, convVars, fallbackVars>>

toggleDirection ==
    /\ selections < MaxSelections
    /\ Len(oppositeDirectionStops) > 0
    /\ nearestStop # <<>>
    /\ LET index == (currentStopIndex + 1) % (Len(oppositeDirectionStops) + 1)
           selectedStop == IF index = 0 THEN nearestStop[1]
                           ELSE oppositeDirectionStops[index]
       IN  /\ nearestStop' = <<selectedStop>>
           /\ showStopDetails(selectedStop, index)
    /\ selections' = selections + 1
    /\ UNCHANGED <<showFallbackUI, refreshes>>
    /\ UNCHANGED <<requestVars, destVars, csvVars, convVars, fallbackVars>>

\* the button that closes the details: stopAutoRefresh is part of it
resetSelection ==
    /\ nearestStop # <<>>
    /\ nearestStop' = <<>>
    /\ stopDetails' = <<>>
    /\ showFallbackUI' = TRUE
    /\ isLoadingLiveData' = FALSE
    /\ loadingStopId' = <<>>
    /\ refreshInterval' = FALSE
    /\ UNCHANGED <<timetableData, oppositeDirectionStops, currentStopIndex, pendingLoads,
                   pendingLive, selections, refreshes>>
    /\ UNCHANGED <<requestVars, destVars, csvVars, convVars, fallbackVars>>

\* the fetch of loadTimetableForStop(s) settles, with the file or with a
\* failure: the entry of timetableData is written and showStopDetails goes on
TimetableLoaded(s) ==
    /\ pendingLoads[s] > 0
    /\ pendingLoads' = [pendingLoads EXCEPT ![s] = @ - 1]
    /\ timetableData' = timetableData \cup {s}
    /\ ShowLoadedStop(s)
    /\ UNCHANGED <<nearestStop, showFallbackUI, selections, refreshes>>
    /\ UNCHANGED <<requestVars, destVars, csvVars, convVars, fallbackVars>>

\* the fetch of fetchLiveDataForStop(s) settles; ok is apiResponse.ok
LiveFetched(s, ok) ==
    /\ pendingLive[s] > 0
    /\ pendingLive' = [pendingLive EXCEPT ![s] = @ - 1]
    /\ timetableData' = IF ok THEN timetableData \cup {s} ELSE timetableData
    /\ stopDetails' =
          IF ok /\ stopDetails # <<>> /\ stopDetails[1].id = s /\ loadingStopId = <<s>>
          THEN <<[id |-> s, timetable |-> [stop |-> s, source |-> "live"]]>>
          ELSE stopDetails
    /\ IF loadingStopId = <<s>>
       THEN isLoadingLiveData' = FALSE /\ loadingStopId' = <<>>
       ELSE UNCHANGED <<isLoadingLiveData, loadingStopId>>
    /\ UNCHANGED <<nearestStop, showFallbackUI, oppositeDirectionStops, currentStopIndex,
                   refreshInterval, pendingLoads, selections, refreshes>>
    /\ UNCHANGED <<requestVars, destVars, csvVars, convVars, fallbackVars>>

\* the interval timer of startAutoRefresh fires
RefreshTick ==
    /\ refreshInterval
    /\ refreshes < MaxRefreshes
    /\ refreshes' = refreshes + 1
    /\ nearestStop # <<>> /\ stopDetails # <<>>
    /\ isLoadingLiveData' = TRUE
    /\ loadingStopId' = nearestStop
    /\ pendingLive' = [pendingLive EXCEPT ![nearestStop[1]] = @ + 1]
    /\ UNCHANGED <<nearestStop, stopDetails, showFallbackUI, timetableData,
                   oppositeDirectionStops, currentStopIndex, refreshInterval, pendingLoads,
                   selections>>
    /\ UNCHANGED <<requestVars, destVars, csvVars, convVars, fallbackVars>>

ClientInit ==
    RequestIdle /\ DestIdle /\ CsvIdle /\ ConvIdle /\ FallbackIdle /\ ClientIdle

ClientNext ==
    \/ \E s \in StopIdsOfPage : selectStop(s)
    \/ \E s \in StopIdsOfPage : findNearestStop(s)
    \/ toggleDirection
    \/ resetSelection
    \/ \E s \in StopIdsOfPage : TimetableLoaded(s)
    \/ \E s \in StopIdsOfPage, ok \in BOOLEAN : LiveFetched(s, ok)
    \/ RefreshTick

ClientSpec == ClientInit /\ [][ClientNext]_vars

\* the closed enumeration of line names
LineId == {"Yellow Line", "Purple Line", "Unknown"}

\* the argument is missing, empty or only white space
DestBlank == destArg = <<>> \/ \A i \in 1..Len(destArg[1]) : IsSpace(destArg[1][i])

\* the argument is a text that has sub somewhere in it
DestContains(sub) == destArg # <<>> /\ Includes(destArg[1], sub)

\* C11: mapDestinationToLine applies its rules in priority order: a missing,
\* empty or white-space input gives Unknown; otherwise a text containing
\* "KR Pura" gives Purple Line, also when it contains "Silk Board"; otherwise
\* a text containing "Silk Board" gives Yellow Line; otherwise Unknown. The
\* result is always one of the three line names.
C11_PriorityOrder ==
    destPc = "returned" =>
        /\ destLine \in LineId
        /\ destLine = IF DestBlank THEN "Unknown"
                      ELSE IF DestContains(KRPura) THEN "Purple Line"
                      ELSE IF DestContains(SilkBoard) THEN "Yellow Line"
                      ELSE "Unknown"

\* a text with both names in it, Silk Board first, gave Purple Line
C11_Witness ==
    /\ destPc = "returned"
    /\ DestContains(SilkBoard \o <<" ">> \o KRPura)
    /\ destLine = "Purple Line"

\* C12 as stated: for every destination text, Purple Line when it contains
\* "KR Pura", Yellow Line when it contains "Silk Board", Unknown for
\* anything else, the empty text included.
C12_EveryContaining ==
    (destPc = "returned" /\ destArg # <<>>) =>
        /\ DestContains(KRPura) => destLine = "Purple Line"
        /\ DestContains(SilkBoard) => destLine = "Yellow Line"
        /\ (~DestContains(KRPura) /\ ~DestContains(SilkBoard)) => destLine = "Unknown"

\* C12 amended: for every destination text, Purple Line when it contains
\* "KR Pura", Yellow Line when it contains "Silk Board" and not "KR Pura",
\* Unknown for anything else, the empty text included.
C12_SilkBoardWithoutKRPura ==
    (destPc = "returned" /\ destArg # <<>>) =>
        /\ DestContains(KRPura) => destLine = "Purple Line"
        /\ (DestContains(SilkBoard) /\ ~DestContains(KRPura)) => destLine = "Yellow Line"
        /\ (~DestContains(KRPura) /\ ~DestContains(SilkBoard)) => destLine = "Unknown"

\* a text with Silk Board after other characters, and without KR Pura, gave
\* Yellow Line
C12_Witness ==
    /\ destPc = "returned"
    /\ DestContains(<<"x">> \o SilkBoard)
    /\ ~DestContains(KRPura)
    /\ destLine = "Yellow Line"

\* the number of quote characters of line before position k
QuotesBefore(line, k) == Cardinality({m \in 1..(k - 1) : line[m] = "\""})

\* the commas of line outside quoted spans
OutsideCommas(line) ==
    {k \in 1..Len(line) : line[k] = "," /\ QuotesBefore(line, k) % 2 = 0}

\* s without its quote characters
Unquoted(s) == SelectSeq(s, LAMBDA c : c # "\"")

\* the position of the comma before field j of line (0 for the first field)
\* and of the comma after it (the end of the line for the last field)
FieldStart(line, j) ==
    IF j = 1 THEN 0
    ELSE CHOOSE k \in OutsideCommas(line) :
             Cardinality({m \in OutsideCommas(line) : m < k}) = j - 2

FieldStop(line, j) ==
    IF j = Cardinality(OutsideCommas(line)) + 1 THEN Len(line) + 1
    ELSE CHOOSE k \in OutsideCommas(line) :
             Cardinality({m \in OutsideCommas(line) : m < k}) = j - 1

\* C13: parseCSVLine splits a line so that a comma ends a field only outside
\* a quoted span, a comma inside a quoted span stays in the field, no quote
\* character appears in a field, every field is trimmed, and the number of
\* fields is one more than the number of commas outside quoted spans.
C13_FieldSplitting ==
    csvPc = "returned" =>
        /\ Len(csvResult) = Cardinality(OutsideCommas(csvLine)) + 1
        /\ \A j \in 1..Len(csvResult) :
             /\ csvResult[j] =
                    Trim(Unquoted(SubSeq(csvLine, FieldStart(csvLine, j) + 1,
                                         FieldStop(csvLine, j) - 1)))
             /\ \A k \in 1..Len(csvResult[j]) : csvResult[j][k] # "\""
             /\ csvResult[j] = Trim(csvResult[j])

\* the line "a,a" in quotes gave the single field a,a
C13_Witness ==
    /\ csvPc = "returned"
    /\ csvLine = <<"\"", "a", ",", "a", "\"">>
    /\ csvResult = << <<"a", ",", "a">> >>

\* the line has an odd number of quote characters
UnterminatedQuote(line) == QuotesBefore(line, Len(line) + 1) % 2 = 1

\* the position of the last quote character of line
OpeningQuote(line) ==
    CHOOSE q \in 1..Len(line) : line[q] = "\"" /\ \A m \in (q + 1)..Len(line) : line[m] # "\""

\* a line with a quote left open gave the fields ended before the opening
\* quote and one final field that holds everything after it
OpenQuoteInFinalField ==
    (csvPc = "returned" /\ UnterminatedQuote(csvLine)) =>
        LET q == OpeningQuote(csvLine)
            before == {k \in OutsideCommas(csvLine) : k < q}
            start == IF before = {} THEN 0
                     ELSE CHOOSE k \in before : \A m \in before : m <= k
        IN  /\ Len(csvResult) = Cardinality(before) + 1
            /\ csvResult[Len(csvResult)] =
                   Trim(Unquoted(SubSeq(csvLine, start + 1, Len(csvLine))))

\* C14: parseCSVLine terminates and returns a field list for every line; for
\* a line with an unterminated quote everything after the opening quote up
\* to the end of the line is part of a single final field.
C14_TerminatesOpenQuote ==
    /\ <>(csvPc = "returned" /\ Len(csvResult) >= 1)
    /\ []OpenQuoteInFinalField

\* a line with a comma after a quote left open returned one final field
\* with the comma in it
C14_Witness ==
    /\ csvPc = "returned"
    /\ csvLine = <<"a", ",", "\"", "a", ",">>
    /\ csvResult = << <<"a">>, <<"a", ",">> >>

\* the request has been answered
Answered == pc = "done" /\ response # <<>>

\* the request got as far as loading data
ReachedDataLoading ==
    \/ pc \in {"awaitStatic", "awaitLive"}
    \/ staticFetchCount > 0 \/ staticFetched # <<>> \/ staticData # <<>>
    \/ liveFetchCount > 0 \/ liveFetched # <<>>

\* C16: an OPTIONS request is answered with status 204, no body and the CORS
\* headers; every method other than GET and OPTIONS is answered with status
\* 405; only a GET request reaches the data-loading stages.
C16_MethodGate ==
    /\ (Answered /\ method = "OPTIONS") =>
           /\ response[1].status = 204
           /\ response[1].kind = "none" /\ response[1].text = ""
           /\ getCORSHeaders \subseteq response[1].headers
    /\ (Answered /\ method \notin {"GET", "OPTIONS"}) => response[1].status = 405
    /\ ReachedDataLoading => method = "GET"

\* an OPTIONS request that names a stop was answered 204 without any fetch
C16_Witness ==
    /\ Answered /\ method = "OPTIONS" /\ stopId = <<"20568">>
    /\ response[1].status = 204
    /\ ~ReachedDataLoading

\* C17: a GET request whose stopid parameter is absent or empty is answered
\* with status 400 and the JSON body {error: "stopid parameter is required"}.
C17_StopIdRequired ==
    (pc # "idle" /\ method = "GET" /\ (stopId = <<>> \/ stopId = <<"">>)) =>
        /\ Answered
        /\ response[1].status = 400
        /\ response[1].kind = "error"
        /\ response[1].text = "stopid parameter is required"
        /\ JSONHeader \subseteq response[1].headers
        /\ ~ReachedDataLoading

\* a GET request with an empty stopid was answered 400
C17_Witness ==
    /\ Answered /\ method = "GET" /\ stopId = <<"">>
    /\ response[1].status = 400

\* C18 as stated: every response carries both the CORS headers and the
\* no-cache headers.
C18_AllHeadersEverywhere ==
    Answered =>
        /\ getCORSHeaders \subseteq response[1].headers
        /\ NoCacheHeaders \subseteq response[1].headers

\* C18 amended: every response carries the CORS headers; the 200 responses
\* also carry the no-cache headers, and the 204, 405, 400 and 500 responses
\* carry none of them.
C18_CORSEverywhereNoCacheOn200 ==
    /\ Answered =>
           /\ getCORSHeaders \subseteq response[1].headers
           /\ response[1].status = 200 => NoCacheHeaders \subseteq response[1].headers
           /\ response[1].status # 200 => response[1].headers \cap NoCacheHeaders = {}
    /\ getCORSHeaders \subseteq InternalError.headers
    /\ InternalError.headers \cap NoCacheHeaders = {}

\* a 200 response served from the live feed has both groups of headers
C18_Witness ==
    /\ Answered /\ response[1].status = 200 /\ served = "live"
    /\ (getCORSHeaders \cup NoCacheHeaders) \subseteq response[1].headers

\* C19: within one request at most one fetch of the static timetable and at
\* most one fetch of the live feed are issued, and neither is repeated after
\* a failure.
C19_AtMostOneFetchEach ==
    /\ staticFetchCount =
           IF pc \in {"awaitStatic", "awaitLive"} \/ staticFetched # <<>> THEN 1 ELSE 0
    /\ liveFetchCount = IF pc = "awaitLive" \/ liveFetched # <<>> THEN 1 ELSE 0
    /\ (staticFetched # <<>> /\ staticFetched[1].kind # "ok") => staticFetchCount = 1
    /\ (liveFetched # <<>> /\ liveFetched[1].kind # "json") => liveFetchCount = 1

\* both fetches failed and each had been issued once
C19_Witness ==
    /\ Answered
    /\ staticFetched # <<>> /\ staticFetched[1].kind # "ok"
    /\ liveFetched # <<>> /\ liveFetched[1].kind = "reject"
    /\ staticFetchCount = 1 /\ liveFetchCount = 1

\* C20: the live-feed request is issued only after the static load has
\* finished, with a result or with a swallowed failure, never while it is
\* under way; the allowedRoutes and staticTowards given to the conversion are
\* the routes and towards of that same static result.
C20_StaticBeforeLive ==
    /\ (liveFetchCount > 0 \/ liveFetched # <<>>) =>
           /\ staticFetched # <<>>
           /\ staticData = <<loadStaticTimetable(staticFetched[1]).value>>
    /\ pc = "awaitStatic" => (liveFetchCount = 0 /\ liveFetched = <<>>)
    /\ adapterArgs # <<>> =>
           /\ adapterArgs[1].allowedRoutes = staticData[1].routes
           /\ adapterArgs[1].staticTowards = staticData[1].towards

\* the conversion was called with the routes and the Purple Line direction
\* of the static schedule loaded before
C20_Witness ==
    /\ adapterArgs # <<>>
    /\ staticFetched[1].kind = "ok"
    /\ staticData[1].towards = "Purple Line"
    /\ adapterArgs[1].staticTowards = "Purple Line"
    /\ adapterArgs[1].allowedRoutes # <<>>

\* the call of the conversion resolved with a result
ConvResolved == convPc = "settled" /\ ~convResult[1].threw

\* the records of convData that pass the route filter and the time filter,
\* by their positions
ConvSurfaced ==
    {i \in 1..Len(convData) :
        /\ ~RouteFiltered(convAllowedRoutes, convData[i].routeno)
        /\ ~OutsideWindow(NumMinus(parseBMTCDate(convData[i].arrivaltime[1]),
                                   Num(convNow)))}

\* C21: the towards of the result is staticTowards when one is given;
\* otherwise it is the normalized line of the first surfaced trip (the first
\* record that passed the filters), and "Unknown" when that trip normalizes
\* to "Unknown" or when no trip is surfaced, even if a later surfaced trip
\* normalizes to a known line.
C21_TowardsOfResult ==
    ConvResolved =>
        LET surfaced == ConvSurfaced
        IN  convResult[1].towards =
                IF Truthy(convStaticTowards) THEN convStaticTowards[1]
                ELSE IF surfaced = {} THEN "Unknown"
                ELSE LET first == CHOOSE i \in surfaced : \A j \in surfaced : i <= j
                     IN  mapDestinationToLine(convData[first].tostationname)

\* no staticTowards; the first record is filtered out, the first surfaced
\* trip normalizes to "Unknown", a later one to a known line, and the
\* towards of the result is "Unknown"
C21_Witness ==
    /\ ConvResolved
    /\ ~Truthy(convStaticTowards)
    /\ convResult[1].towards = "Unknown"
    /\ LET surfaced == ConvSurfaced
       IN  /\ 1 \notin surfaced
           /\ \E i, j \in surfaced :
                 /\ i < j
                 /\ \A k \in surfaced : i <= k
                 /\ mapDestinationToLine(convData[i].tostationname) = "Unknown"
                 /\ mapDestinationToLine(convData[j].tostationname) = "Yellow Line"

\* the trips pushed by the forEach callback, before the sort
ConvPushed ==
    ConvertTrips([trips |-> <<>>, routes |-> <<>>,
                  towards |-> IF Truthy(convStaticTowards) THEN convStaticTowards
                              ELSE <<>>,
                  threw |-> FALSE],
                 convData, 1, convAllowedRoutes, convStaticTowards, convNow).trips

\* how many times x is in seq
Count(seq, x) == Cardinality({i \in 1..Len(seq) : seq[i] = x})

\* the trips of seq that have the time t, in their order
WithTime(seq, t) == SelectSeq(seq, LAMBDA x : x.time = t)

TwoDigits(n) == <<Digits[(n \div 10) + 1], Digits[(n % 10) + 1]>>

\* the minute of the UTC day of the arrival instant
UTCMinuteOfDay == (fallbackArrival.v % MsPerDay) \div (60 * 1000)

\* C23: when the arrival text does not have the " HH:MM:SS" shape, the
\* fallback gives, for every UTC hour and minute of the arrival instant, the
\* two-digit HH:MM of (UTC minute of day + 330) mod 1440, with the hour in
\* 0..23 and the minute in 0..59; that is the clock time written in the text.
C23_FallbackClockTime ==
    (fallbackPc = "returned"
       /\ TimeMatch(FallbackText(fallbackHours, fallbackMinutes)) = <<>>) =>
        LET ist == (UTCMinuteOfDay + 330) % 1440
        IN  /\ ~fallbackArrival.nan
            /\ fallbackTime = TwoDigits(ist \div 60) \o <<":">> \o TwoDigits(ist % 60)
            /\ ist \div 60 \in 0..23 /\ ist % 60 \in 0..59
            /\ ist = fallbackHours * 60 + fallbackMinutes

\* the arrival instant 18:45 UTC, where the minute overflows and the hour
\* wraps, gave 00:15
C23_Witness ==
    /\ fallbackPc = "returned"
    /\ ~fallbackArrival.nan
    /\ UTCMinuteOfDay = 18 * 60 + 45
    /\ fallbackTime = <<"0", "0", ":", "1", "5">>

\* t is two digits, a colon and two digits, with the hour below 24 and the
\* minute below 60
WellFormedTime(t) ==
    /\ Len(t) = 5
    /\ IsDigit(t[1]) /\ IsDigit(t[2]) /\ t[3] = ":" /\ IsDigit(t[4]) /\ IsDigit(t[5])
    /\ DigitVal(t[1]) * 10 + DigitVal(t[2]) < 24
    /\ DigitVal(t[4]) * 10 + DigitVal(t[5]) < 60

\* C24: a live record whose arrivaltime does not parse into a valid instant
\* is never surfaced: every trip of a live-derived result comes from a record
\* with a valid arrival instant inside [now, now + 90 min] and has a
\* well-formed HH:MM time.
C24_OnlyValidArrivals ==
    (pc = "done" /\ liveData # <<>>) =>
        \A k \in 1..Len(liveData[1].trips) :
            /\ WellFormedTime(liveData[1].trips[k].time)
            /\ \E i \in 1..Len(FeedData) :
                 /\ FeedInWindow(i)
                 /\ FeedData[i].routeno = liveData[1].trips[k].route_name

\* C25: when the static schedule yields an empty route set, the response has
\* an empty trips list whatever the live feed returns, also when the feed
\* holds arrivals inside the window.
C25_NoStaticRoutesNoTrips ==
    (pc = "done" /\ staticData # <<>> /\ staticData[1].routes = <<>>) =>
        /\ Answered200
        /\ response[1].timetable[1].trips = <<>>

\* the static fetch failed, the feed held an arrival inside the window, and
\* the response has no trips
C25_Witness ==
    /\ Answered200
    /\ staticFetched[1].kind = "reject"
    /\ staticData[1].routes = <<>>
    /\ liveFetched[1].kind = "json" /\ liveFetched[1].Issuccess
    /\ \E i \in 1..Len(FeedData) :
         /\ FeedData[i].arrivaltime # <<>>
         /\ LET d == NumMinus(parseBMTCDate(FeedData[i].arrivaltime[1]), Num(now[1]))
            IN  ~d.nan /\ d.v >= 0 /\ d.v <= WindowMs
    /\ response[1].timetable[1].trips = <<>>

\* no load of a timetable and no fetch of live data is pending
ClientQuiet ==
    \A s \in StopIdsOfPage : pendingLoads[s] = 0 /\ pendingLive[s] = 0

\* C26: under every interleaving of stop selections with the completions of
\* the loads and fetches they start, once none is pending stopDetails.id
\* equals nearestStop.id: the timetable shown is that of the stop selected.
C26_ShownStopIsSelected ==
    (ClientQuiet /\ nearestStop # <<>>) =>
        /\ stopDetails # <<>>
        /\ stopDetails[1].id = nearestStop[1]
        /\ stopDetails[1].timetable.stop = nearestStop[1]

====
